---------------------------- MODULE Spec2Model ----------------------------
(***************************************************************************)
(* Promo-code redemption and consistency engine of remnawave-tg-shop:      *)
(* PromoCodeService (bot/services/promo_code_service.py) over the DAL      *)
(* (db/dal/promo_code_dal.py, db/dal/active_discount_dal.py).              *)
(*                                                                         *)
(* Storage is PostgreSQL at READ COMMITTED: every call runs in its own     *)
(* session/transaction; a statement reads the committed tables overlaid    *)
(* with the transaction's own uncommitted writes (wlog), a write to a row  *)
(* another open transaction has written waits for that transaction, and    *)
(* the writes of a transaction reach the committed tables (db) together,   *)
(* when it commits.  Each SQL statement of a handler is one step.  Two      *)
(* transactions that wait for each other stay where they are: the storage  *)
(* would abort one of them, whose rollback leaves the other to run as if   *)
(* alone.                                                                  *)
(***************************************************************************)
EXTENDS Integers, Sequences, FiniteSets, TLC

\* ------------------------------------------------------------- bounds
NumProcs == 2     \* concurrent sessions
NumUsers == 2     \* user rows
NumPays  == 2     \* payment rows that may be created
MaxCap   == 2     \* largest max_activations of the catalog
MaxTime  == 1     \* clock ticks

Procs    == 1..NumProcs
Users    == 1..NumUsers
PayIds   == 1..NumPays
PromoIds == {1, 2, 3}
NULL     == 0

\* ------------------------------------------------------------- rows
NoPromo == [exists |-> FALSE, code |-> "", ptype |-> "", max |-> 0, cur |-> 0,
            active |-> FALSE, until |-> NULL, pct |-> 0]
NoPay   == [exists |-> FALSE, user |-> NULL, applied |-> 0, promo |-> NULL]

\* str.strip() and str.upper() on the code strings the model feeds
CodeInputs == {"BONUS", " save ", "deal"}
Strip(s) == IF s = " save " THEN "save" ELSE s
Upper(s) ==
  CASE s = "save" -> "SAVE"
    [] s = "deal" -> "DEAL"
    [] OTHER      -> s

\* The catalog an administrator created: one bonus_days code and two
\* discount codes, the first of them with an expiry date.
Catalog(capB, capD) ==
  [c \in PromoIds |->
     CASE c = 1 -> [exists |-> TRUE, code |-> "BONUS", ptype |-> "bonus_days",
                    max |-> capB, cur |-> 0, active |-> TRUE, until |-> NULL,
                    pct |-> 0]
       [] c = 2 -> [exists |-> TRUE, code |-> "SAVE", ptype |-> "discount",
                    max |-> 1, cur |-> 0, active |-> TRUE, until |-> 1,
                    pct |-> 10]
       [] c = 3 -> [exists |-> TRUE, code |-> "DEAL", ptype |-> "discount",
                    max |-> capD, cur |-> 0, active |-> TRUE, until |-> NULL,
                    pct |-> 100]]

\* The registered migrations, in list order.
MIGRATIONS ==
  << "0001_add_channel_subscription_fields",
     "0002_add_referral_code",
     "0003_normalize_referral_codes",
     "0004_add_discount_promo_codes",
     "0005_fix_active_discounts_fk_cascade" >>

\* schema_migrations (rec: the recorded ids) and what the upgrades did to the
\* schema: eff counts the complete runs of each migration's upgrade that are
\* in effect, part the effects of upgrades that raised.
NoMigrations ==
  [rec  |-> {},
   eff  |-> [i \in DOMAIN MIGRATIONS |-> 0],
   part |-> [i \in DOMAIN MIGRATIONS |-> 0]]

EmptyDb(capB, capD) ==
  [promo |-> Catalog(capB, capD),
   act   |-> [cu \in PromoIds \X Users |-> <<>>],
   disc  |-> [u \in Users |-> <<>>],
   pay   |-> [k \in PayIds |-> NoPay],
   mig   |-> NoMigrations]

VARIABLES
  db,      \* the committed tables
  now,     \* the clock (datetime.now)
  call,    \* per session: the running call, its locals and its result
  wlog,    \* per session: the uncommitted writes of its transaction
  ext,     \* subscription extensions granted, per <<promo, user>> (external)
  incs     \* committed usage increments made by consume, per payment

vars == <<db, now, call, wlog, ext, incs>>

\* ------------------------------------------------- uncommitted writes
\* One write of a transaction: t names the statement, c the promo, u the
\* user, k the payment (or the value written), s the rows a bulk statement
\* touched, a the amount stored in a payment row.
W(t, c, u, k, s) == [t |-> t, c |-> c, u |-> u, k |-> k, s |-> s, a |-> 0]

ApplyOp(d, w) ==
  CASE w.t = "insAct"  -> [d EXCEPT !.act[<<w.c, w.u>>] = Append(@, w.k)]
    [] w.t = "setPay"  -> [d EXCEPT !.act[<<w.c, w.u>>] = [i \in DOMAIN @ |-> w.k]]
    [] w.t = "delActs" -> [d EXCEPT !.act =
                             [cu \in DOMAIN @ |->
                                IF cu[1] = w.c /\ cu[2] \in w.s THEN <<>> ELSE @[cu]]]
    [] w.t = "inc"     -> [d EXCEPT !.promo[w.c].cur = @ + 1]
    [] w.t = "dec"     -> [d EXCEPT !.promo[w.c].cur = @ - 1]
    [] w.t = "setPct"  -> [d EXCEPT !.promo[w.c].pct = w.k]
    [] w.t = "setActive" -> [d EXCEPT !.promo[w.c].active = (w.k = 1)]
    [] w.t = "delPromo" ->
         \* fk_active_discounts_promo_code ... ON DELETE CASCADE
         [d EXCEPT !.promo[w.c] = NoPromo,
                   !.disc = [u \in DOMAIN @ |->
                               SelectSeq(@[u], LAMBDA r : r.promo # w.c)]]
    [] w.t = "insDisc" -> [d EXCEPT !.disc[w.u] =
                             Append(@, [promo |-> w.c, pct |-> w.k])]
    [] w.t = "delDisc" -> [d EXCEPT !.disc =
                             [u \in DOMAIN @ |-> IF u \in w.s THEN <<>> ELSE @[u]]]
    [] w.t = "nullPay" -> [d EXCEPT !.pay =
                             [k \in DOMAIN @ |->
                                IF k \in w.s THEN [@[k] EXCEPT !.promo = NULL]
                                ELSE @[k]]]
    [] w.t = "insPay"  -> [d EXCEPT !.pay[w.k] =
                             [exists |-> TRUE, user |-> w.u,
                              applied |-> w.a, promo |-> w.c]]
    [] w.t = "migEff"  -> [d EXCEPT !.mig.eff[w.k] = @ + 1]
    [] w.t = "migPart" -> [d EXCEPT !.mig.part[w.k] = @ + 1]
    [] w.t = "migRec"  -> [d EXCEPT !.mig.rec = @ \cup {MIGRATIONS[w.k]}]
    [] OTHER -> d

RECURSIVE ApplyLog(_, _)
ApplyLog(d, log) ==
  IF log = <<>> THEN d ELSE ApplyLog(ApplyOp(d, Head(log)), Tail(log))

\* What a statement of session p reads.
View(p) == ApplyLog(db, wlog[p])

\* Rows a write holds locked until its transaction ends.
OpKeys(w) ==
  CASE w.t \in {"insAct", "setPay"}       -> {<<"act", w.c, w.u>>}
    [] w.t = "delActs"                     -> {<<"act", w.c, u>> : u \in w.s}
    [] w.t \in {"inc", "dec", "setPct", "setActive", "delPromo"}
                                           -> {<<"promo", w.c, NULL>>}
    [] w.t = "insDisc"                     -> {<<"disc", NULL, w.u>>}
    [] w.t = "delDisc"                     -> {<<"disc", NULL, u>> : u \in w.s}
    [] w.t = "nullPay"                     -> {<<"pay", NULL, k>> : k \in w.s}
    [] w.t = "insPay"                      -> {<<"pay", NULL, w.k>>}
    [] OTHER                               -> {}

WKeys(log) == UNION {OpKeys(log[i]) : i \in DOMAIN log}

\* Promo rows a transaction's inserted rows reference (foreign-key share lock).
KeyShare(log) ==
  {log[i].c : i \in {j \in DOMAIN log :
                       log[j].t \in {"insAct", "insDisc", "insPay"}}} \ {NULL}

DelPromos(log) == {log[i].c : i \in {j \in DOMAIN log : log[j].t = "delPromo"}}

RowExists(d, key) ==
  CASE key[1] = "act"   -> d.act[<<key[2], key[3]>>] # <<>>
    [] key[1] = "promo" -> d.promo[key[2]].exists
    [] key[1] = "disc"  -> d.disc[key[3]] # <<>>
    [] key[1] = "pay"   -> d.pay[key[3]].exists
    [] OTHER            -> FALSE

\* UPDATE/DELETE of a committed row another open transaction has written waits.
WaitWrite(p, key) ==
  \E q \in Procs \ {p} : key \in WKeys(wlog[q]) /\ RowExists(db, key)
\* INSERT under a unique key another open transaction has written waits.
WaitInsert(p, key) == \E q \in Procs \ {p} : key \in WKeys(wlog[q])
\* INSERT of a row referencing promo c waits while c is being deleted.
WaitRef(p, c) == \E q \in Procs \ {p} : c \in DelPromos(wlog[q])
\* DELETE of promo c waits for writers of the row and of rows referencing it.
WaitDel(p, c) ==
  \E q \in Procs \ {p} :
     <<"promo", c, NULL>> \in WKeys(wlog[q]) \/ c \in KeyShare(wlog[q])

\* ------------------------------------------------------- DAL: reads
UserExists(u) == u \in Users

get_promo_code_by_id(d, c) ==
  IF c \in PromoIds /\ d.promo[c].exists THEN c ELSE NULL

\* A lookup without the three conditions on the row.
AlwaysEligible(r, t) == TRUE

\* is_active AND current_activations < max_activations
\* AND (valid_until IS NULL OR valid_until > now)
Eligible(r, t) ==
  /\ r.active
  /\ r.cur < r.max
  /\ (r.until = NULL \/ r.until > t)

ByCodeStr(d, code_str, ptype, t) ==
  LET m == {c \in PromoIds : /\ d.promo[c].exists
                             /\ d.promo[c].code = Upper(code_str)
                             /\ d.promo[c].ptype = ptype
                             /\ Eligible(d.promo[c], t)}
  IN IF m = {} THEN NULL ELSE CHOOSE c \in m : TRUE

get_active_bonus_promo_code_by_code_str(d, code_str, t) ==
  ByCodeStr(d, code_str, "bonus_days", t)

get_active_discount_promo_code_by_code_str(d, code_str, t) ==
  ByCodeStr(d, code_str, "discount", t)

\* A ledger lookup that never finds a row.
ActivationNeverFound(d, c, u) == [found |-> FALSE, pay |-> NULL]

\* The first row of the pair (.limit(1)): found, and its payment_id.
get_user_activation_for_promo(d, c, u) ==
  IF c \in PromoIds /\ d.act[<<c, u>>] # <<>>
  THEN [found |-> TRUE, pay |-> Head(d.act[<<c, u>>])]
  ELSE [found |-> FALSE, pay |-> NULL]

\* A lookup of the active discount that never finds a row.
ActiveDiscountNeverFound(d, u) == [found |-> FALSE, promo |-> NULL, pct |-> 0]

get_active_discount(d, u) ==
  IF d.disc[u] # <<>>
  THEN [found |-> TRUE, promo |-> Head(d.disc[u]).promo, pct |-> Head(d.disc[u]).pct]
  ELSE [found |-> FALSE, promo |-> NULL, pct |-> 0]

get_payment_by_db_id(d, k) == IF k \in PayIds /\ d.pay[k].exists THEN k ELSE NULL

\* ------------------------------------------------------ DAL: writes
\* A write statement evaluated on the view d: the writes it adds to the
\* transaction and what it returns (rowcount > 0).
\* An increment whose UPDATE has lost its cap condition.
IncrementWithoutCap(d, c, allow_overflow, k) ==
  LET hit == c \in PromoIds /\ d.promo[c].exists
  IN [w   |-> IF hit THEN <<W("inc", c, NULL, k, {})>> ELSE <<>>,
      ret |-> hit]

\* An increment that checks the cap whatever allow_overflow says.
IncrementAlwaysStrict(d, c, allow_overflow, k) ==
  LET hit == /\ c \in PromoIds
             /\ d.promo[c].exists
             /\ d.promo[c].cur < d.promo[c].max
  IN [w   |-> IF hit THEN <<W("inc", c, NULL, k, {})>> ELSE <<>>,
      ret |-> hit]

increment_promo_code_usage(d, c, allow_overflow, k) ==
  LET hit == /\ c \in PromoIds
             /\ d.promo[c].exists
             /\ (allow_overflow \/ d.promo[c].cur < d.promo[c].max)
  IN [w   |-> IF hit THEN <<W("inc", c, NULL, k, {})>> ELSE <<>>,
      ret |-> hit]

\* A decrement without the "current_activations > 0" condition.
DecrementWithoutFloor(d, c) ==
  LET hit == c \in PromoIds /\ d.promo[c].exists
  IN [w |-> IF hit THEN <<W("dec", c, NULL, NULL, {})>> ELSE <<>>, ret |-> hit]

decrement_promo_code_usage(d, c) ==
  LET hit == c \in PromoIds /\ d.promo[c].exists /\ d.promo[c].cur > 0
  IN [w |-> IF hit THEN <<W("dec", c, NULL, NULL, {})>> ELSE <<>>, ret |-> hit]

\* An UPDATE of the payment_id without the "payment_id IS NULL" condition.
SetPaymentBlind(d, c, u, k) ==
  LET hit == d.act[<<c, u>>] # <<>>
  IN [w |-> IF hit THEN <<W("setPay", c, u, k, {})>> ELSE <<>>, ret |-> hit]

set_activation_payment_id(d, c, u, k) ==
  LET hit == \E i \in DOMAIN d.act[<<c, u>>] : d.act[<<c, u>>][i] = NULL
  IN [w |-> IF hit THEN <<W("setPay", c, u, k, {})>> ELSE <<>>, ret |-> hit]

\* A clear that deletes nothing.
ClearNothing(d, u) == [w |-> <<>>, ret |-> FALSE]

clear_active_discount(d, u) ==
  LET hit == d.disc[u] # <<>>
  IN [w |-> IF hit THEN <<W("delDisc", NULL, NULL, NULL, {u})>> ELSE <<>>,
      ret |-> hit]

clear_active_discounts_by_promo_code(d, c) ==
  LET us == {u \in Users : \E i \in DOMAIN d.disc[u] : d.disc[u][i].promo = c}
  IN [w |-> IF us # {} THEN <<W("delDisc", NULL, NULL, NULL, us)>> ELSE <<>>,
      ret |-> Cardinality(us)]

\* ------------------------------------ storage constraints (db.models)
\* Tables without the uniqueness constraints.
NoUniqueConstraint(d, c, u) == FALSE
NoPrimaryKey(d, u) == FALSE

\* UniqueConstraint(promo_code_id, user_id) on promo_code_activations
uq_promo_user_activation(d, c, u) == d.act[<<c, u>>] # <<>>
\* promo_code_activations.promo_code_id REFERENCES promo_codes
fk_activation_promo_code(d, c) == ~ d.promo[c].exists
\* active_discounts.user_id PRIMARY KEY
pk_active_discounts(d, u) == d.disc[u] # <<>>
\* active_discounts.promo_code_id REFERENCES promo_codes
fk_active_discounts_promo_code(d, c) == ~ d.promo[c].exists

\* ------------------------------------------------------------ calls
Idle ==
  [op |-> "idle", pc |-> "done", u |-> NULL, code |-> "", k |-> NULL,
   c |-> NULL, pct |-> 0, ad |-> NULL, ex |-> FALSE, expay |-> NULL,
   rec |-> FALSE, inc |-> FALSE, res |-> "", val |-> 0, vcode |-> "",
   exted |-> FALSE, price |-> 0, final |-> 0, rows |-> {},
   seen |-> NULL, seenpct |-> 0, had |-> FALSE]

\* Whether storage already holds what the call r is about when it starts:
\* for a bonus redemption an activation of the code by the user, for consume
\* an activation linked to the payment, for a discount redemption and for a
\* read of the active discount an ActiveDiscount row of the user.
Had(r) ==
  CASE r.op = "bonus" ->
         \E c \in PromoIds : /\ db.promo[c].exists
                             /\ db.promo[c].code = Upper(Strip(r.code))
                             /\ db.act[<<c, r.u>>] # <<>>
    [] r.op = "consume" ->
         \E c \in PromoIds : \E i \in DOMAIN db.act[<<c, r.u>>] :
            db.act[<<c, r.u>>][i] = r.k
    [] r.op \in {"discount", "getdisc"} -> db.disc[r.u] # <<>>
    [] OTHER -> FALSE

\* Session p, free, starts the call r in a fresh transaction.
BeginCall(p, r) ==
  /\ call[p].pc = "done"
  /\ call' = [call EXCEPT ![p] = [r EXCEPT !.had = Had(r)]]
  /\ UNCHANGED <<db, now, wlog, ext, incs>>

\* No other session is inside a call / only inside calls of the kinds S.
Quiet(p) == \A q \in Procs \ {p} : call[q].pc = "done"
Among(p, S) == \A q \in Procs \ {p} : call[q].pc = "done" \/ call[q].op \in S

Begin(p, op, pc, u, code, k) ==
  BeginCall(p, [Idle EXCEPT !.op = op, !.pc = pc, !.u = u, !.code = code, !.k = k])

At(p, op, pc) == call[p].op = op /\ call[p].pc = pc

\* The handler returns tag (and the call's session is then ended by Finish).
Ret(r, tag) == [r EXCEPT !.pc = "ret", !.res = tag]

\* Results after which the caller rolls the session back instead of committing.
FailTags == {"NOT_FOUND", "ALREADY_USED", "ERROR", "ALREADY_HAS", "ERROR_DISC",
             "FALSE", "EXC"}

\* What stays known of a finished call: of a bonus redemption the user, the
\* code, whether the subscription was extended, and the result.
Done(r) ==
  IF r.op = "bonus"
  THEN [Idle EXCEPT !.op = r.op, !.u = r.u, !.code = r.code, !.res = r.res,
                    !.exted = r.exted]
  ELSE Idle

\* A caller that commits the session whatever the call returned.
CommitWhateverTheResult(p) ==
  /\ call[p].pc = "ret"
  /\ db' = View(p)
  /\ call' = [call EXCEPT ![p] = Done(@)]
  /\ wlog' = [wlog EXCEPT ![p] = <<>>]
  /\ UNCHANGED <<now, ext, incs>>

\* The caller ends the session: one commit of everything the call wrote, or a
\* rollback when the call failed or raised.  A delete_promo_code still running
\* in another session is marked (had): it has overlapped another call.
Finish(p) ==
  /\ call[p].pc = "ret"
  /\ LET ok == call[p].res \notin FailTags
     IN /\ db' = IF ok THEN View(p) ELSE db
        /\ incs' = IF ok
                   THEN [k \in PayIds |->
                           incs[k] + Cardinality({i \in DOMAIN wlog[p] :
                                                    wlog[p][i].t = "inc"
                                                    /\ wlog[p][i].k = k})]
                   ELSE incs
        /\ call' = [q \in Procs |->
                      IF q = p THEN Done(call[p])
                      ELSE IF call[q].op = "delete" /\ call[q].pc # "done"
                      THEN [call[q] EXCEPT !.had = TRUE]
                      ELSE call[q]]
  /\ wlog' = [wlog EXCEPT ![p] = <<>>]
  /\ UNCHANGED <<now, ext>>

Tick ==
  /\ now < MaxTime
  /\ now' = now + 1
  /\ UNCHANGED <<db, call, wlog, ext, incs>>

\* ------------------------------------- PromoCodeService.apply_promo_code
Start_apply_promo_code(p, codes) ==
  \E u \in Users, code \in codes : Begin(p, "bonus", "b_lookup", u, code, NULL)

\* promo_data = get_active_bonus_promo_code_by_code_str(code_input_upper)
apply_promo_code_lookup(p) ==
  /\ At(p, "bonus", "b_lookup")
  /\ LET c == get_active_bonus_promo_code_by_code_str(
                View(p), Upper(Strip(call[p].code)), now)
     IN call' = [call EXCEPT ![p] =
                   IF c = NULL THEN Ret(@, "NOT_FOUND")
                   ELSE [@ EXCEPT !.c = c, !.pc = "b_used"]]
  /\ UNCHANGED <<db, now, wlog, ext, incs>>

\* existing_activation = get_user_activation_for_promo(...)
apply_promo_code_used(p) ==
  /\ At(p, "bonus", "b_used")
  /\ LET e == get_user_activation_for_promo(View(p), call[p].c, call[p].u)
     IN call' = [call EXCEPT ![p] =
                   IF e.found THEN Ret(@, "ALREADY_USED")
                   ELSE [@ EXCEPT !.pc = "b_extend"]]
  /\ UNCHANGED <<db, now, wlog, ext, incs>>

\* A redemption that goes on to its writes although nothing was extended.
RecordWithoutExtension(p) ==
  /\ At(p, "bonus", "b_extend")
  /\ call' = [call EXCEPT ![p].pc = "r_chk"]
  /\ UNCHANGED <<db, now, wlog, ext, incs>>

\* new_end_date = subscription_service.extend_active_subscription_days(...):
\* the external collaborator extends the subscription or fails.
apply_promo_code_extend(p) ==
  /\ At(p, "bonus", "b_extend")
  /\ \E new_end_date \in BOOLEAN :
       IF new_end_date
       THEN /\ ext' = [ext EXCEPT ![<<call[p].c, call[p].u>>] = @ + 1]
            /\ call' = [call EXCEPT ![p].exted = TRUE, ![p].pc = "r_chk"]
       ELSE /\ ext' = ext
            /\ call' = [call EXCEPT ![p] = Ret(@, "ERROR")]
  /\ UNCHANGED <<db, now, wlog, incs>>

\* ------------------------------------------- record_promo_activation
\* Where the caller goes on with the value record_promo_activation returned.
AfterRecord(r, recorded) ==
  IF r.op = "bonus" THEN [r EXCEPT !.rec = recorded, !.pc = "b_inc"]
  ELSE IF r.op = "record"
  THEN Ret([r EXCEPT !.rec = recorded], IF recorded THEN "RECORDED" ELSE "FALSE")
  ELSE IF recorded THEN [r EXCEPT !.rec = TRUE, !.pc = "c_inc"]
  ELSE Ret([r EXCEPT !.rec = FALSE], "FALSE")

\* record_promo_activation called on its own, with the default payment_id
\* (None), for a code of the set cs.
Start_record_promo_activation(p, cs) ==
  \E u \in Users, c \in cs :
     BeginCall(p, [Idle EXCEPT !.op = "record", !.pc = "r_chk", !.u = u, !.c = c])

\* existing_activation = get_user_activation_for_promo(...); return it if found
record_promo_activation_check(p) ==
  /\ call[p].pc = "r_chk"
  /\ LET e == get_user_activation_for_promo(View(p), call[p].c, call[p].u)
     IN call' = [call EXCEPT ![p] =
                   IF e.found THEN AfterRecord(@, TRUE)
                   ELSE [@ EXCEPT !.pc = "r_get"]]
  /\ UNCHANGED <<db, now, wlog, ext, incs>>

\* user = get_user_by_id; promo = get_promo_code_by_id; payment lookup.
\* session.get answers from the session's identity map when the caller has
\* loaded the PromoCode row already (apply_promo_code has, consume has not).
record_promo_activation_get(p) ==
  /\ call[p].pc = "r_get"
  /\ LET cached == call[p].op = "bonus"
         promo  == IF cached THEN call[p].c
                   ELSE get_promo_code_by_id(View(p), call[p].c)
         payok  == call[p].k = NULL
                   \/ get_payment_by_db_id(View(p), call[p].k) # NULL
     IN call' = [call EXCEPT ![p] =
                   IF ~ UserExists(call[p].u) \/ promo = NULL \/ ~ payok
                   THEN AfterRecord(@, FALSE)
                   ELSE [@ EXCEPT !.pc = "r_ins"]]
  /\ UNCHANGED <<db, now, wlog, ext, incs>>

\* session.add(new_activation); session.flush()
record_promo_activation_insert(p) ==
  /\ call[p].pc = "r_ins"
  /\ ~ WaitInsert(p, <<"act", call[p].c, call[p].u>>)
  /\ ~ WaitRef(p, call[p].c)
  /\ LET d == View(p)
         c == call[p].c
         u == call[p].u
     IN IF uq_promo_user_activation(d, c, u) \/ fk_activation_promo_code(d, c)
        THEN /\ call' = [call EXCEPT ![p] = Ret(@, "EXC")]
             /\ wlog' = wlog
        ELSE /\ call' = [call EXCEPT ![p] = AfterRecord(@, TRUE)]
             /\ wlog' = [wlog EXCEPT ![p] =
                           Append(@, W("insAct", c, u, call[p].k, {}))]
  /\ UNCHANGED <<db, now, ext, incs>>

\* A redemption that reports success once the subscription is extended,
\* whatever its two writes returned.
SuccessWhateverTheWrites(p) ==
  /\ At(p, "bonus", "b_inc")
  /\ ~ WaitWrite(p, <<"promo", call[p].c, NULL>>)
  /\ LET r == increment_promo_code_usage(View(p), call[p].c, FALSE, NULL)
     IN /\ wlog' = [wlog EXCEPT ![p] = @ \o r.w]
        /\ call' = [call EXCEPT ![p] = Ret([@ EXCEPT !.inc = r.ret], "OK")]
  /\ UNCHANGED <<db, now, ext, incs>>

\* promo_incremented = increment_promo_code_usage(session, promo_code_id)
\* and the result: success iff both writes returned a row.
apply_promo_code_increment(p) ==
  /\ At(p, "bonus", "b_inc")
  /\ ~ WaitWrite(p, <<"promo", call[p].c, NULL>>)
  /\ LET r == increment_promo_code_usage(View(p), call[p].c, FALSE, NULL)
     IN /\ wlog' = [wlog EXCEPT ![p] = @ \o r.w]
        /\ call' = [call EXCEPT ![p] =
                      Ret([@ EXCEPT !.inc = r.ret],
                          IF call[p].rec /\ r.ret THEN "OK" ELSE "ERROR")]
  /\ UNCHANGED <<db, now, ext, incs>>

\* ----------------------------------------------- set_active_discount
\* existing = get_active_discount(session, user_id); None when there is one
set_active_discount_check(d, u) == get_active_discount(d, u).found

\* An activation of a discount that also records the activation and takes a
\* slot of the code.
SetDiscountAndRecord(d, u, c, pct) ==
  [w |-> <<W("insDisc", c, u, pct, {}), W("insAct", c, u, NULL, {}),
           W("inc", c, NULL, NULL, {})>>,
   ret |-> TRUE]

\* session.add(new_discount); session.flush(): the row, or IntegrityError
set_active_discount_insert(d, u, c, pct) ==
  IF pk_active_discounts(d, u) \/ fk_active_discounts_promo_code(d, c)
  THEN [w |-> <<>>, ret |-> FALSE]
  ELSE [w |-> <<W("insDisc", c, u, pct, {})>>, ret |-> TRUE]

\* ---------------------------- PromoCodeService.apply_discount_promo_code
Start_apply_discount_promo_code(p, codes) ==
  \E u \in Users, code \in codes :
     Begin(p, "discount", "d_get", u, code, NULL)

\* existing_discount = get_active_discount(session, user_id)
apply_discount_promo_code_get(p) ==
  /\ At(p, "discount", "d_get")
  /\ LET e == get_active_discount(View(p), call[p].u)
     IN call' = [call EXCEPT ![p] =
                   IF e.found
                   THEN [@ EXCEPT !.ad = e.promo, !.val = e.pct, !.pc = "d_promo"]
                   ELSE [@ EXCEPT !.pc = "d_lookup"]]
  /\ UNCHANGED <<db, now, wlog, ext, incs>>

\* existing_promo = get_promo_code_by_id(existing_discount.promo_code_id):
\* found, the call fails with the held code and percentage; not found, the
\* orphaned discount is cleared (clear_active_discount) and the call goes on.
apply_discount_promo_code_existing(p) ==
  /\ call[p].op = "discount"
  /\ call[p].pc \in {"d_promo", "d_clear"}
  /\ call[p].pc = "d_clear" => ~ WaitWrite(p, <<"disc", NULL, call[p].u>>)
  /\ LET c == get_promo_code_by_id(View(p), call[p].ad)
     IN IF call[p].pc = "d_promo"
        THEN /\ call' = [call EXCEPT ![p] =
                           IF c # NULL
                           THEN Ret([@ EXCEPT !.vcode = View(p).promo[c].code],
                                    "ALREADY_HAS")
                           ELSE [@ EXCEPT !.pc = "d_clear"]]
             /\ wlog' = wlog
        ELSE /\ wlog' = [wlog EXCEPT ![p] =
                           @ \o clear_active_discount(View(p), call[p].u).w]
             /\ call' = [call EXCEPT ![p].pc = "d_lookup", ![p].ad = NULL,
                                     ![p].val = 0]
  /\ UNCHANGED <<db, now, ext, incs>>

\* promo_data = get_active_discount_promo_code_by_code_str(code_input_upper)
apply_discount_promo_code_lookup(p) ==
  /\ At(p, "discount", "d_lookup")
  /\ LET c == get_active_discount_promo_code_by_code_str(
                View(p), Upper(Strip(call[p].code)), now)
     IN call' = [call EXCEPT ![p] =
                   IF c = NULL THEN Ret(@, "NOT_FOUND")
                   ELSE [@ EXCEPT !.c = c, !.pct = View(p).promo[c].pct,
                                  !.pc = "d_used"]]
  /\ UNCHANGED <<db, now, wlog, ext, incs>>

\* existing_activation = get_user_activation_for_promo(...)
apply_discount_promo_code_used(p) ==
  /\ At(p, "discount", "d_used")
  /\ LET e == get_user_activation_for_promo(View(p), call[p].c, call[p].u)
     IN call' = [call EXCEPT ![p] =
                   IF e.found THEN Ret(@, "ALREADY_USED")
                   ELSE [@ EXCEPT !.pc = "d_set"]]
  /\ UNCHANGED <<db, now, wlog, ext, incs>>

\* set_active_discount: the existence check
apply_discount_promo_code_set_check(p) ==
  /\ At(p, "discount", "d_set")
  /\ call' = [call EXCEPT ![p] =
                IF set_active_discount_check(View(p), call[p].u)
                THEN Ret(@, "ERROR_DISC")
                ELSE [@ EXCEPT !.pc = "d_ins"]]
  /\ UNCHANGED <<db, now, wlog, ext, incs>>

\* set_active_discount: the insert, and the result
apply_discount_promo_code_set_insert(p) ==
  /\ At(p, "discount", "d_ins")
  /\ ~ WaitInsert(p, <<"disc", NULL, call[p].u>>)
  /\ ~ WaitRef(p, call[p].c)
  /\ LET r == set_active_discount_insert(View(p), call[p].u, call[p].c, call[p].pct)
     IN /\ wlog' = [wlog EXCEPT ![p] = @ \o r.w]
        /\ call' = [call EXCEPT ![p] =
                      IF r.ret THEN Ret([@ EXCEPT !.val = call[p].pct], "OK")
                      ELSE Ret(@, "EXC")]
  /\ UNCHANGED <<db, now, ext, incs>>

\* ----------------------------- PromoCodeService.get_user_active_discount
Start_get_user_active_discount(p) ==
  \E u \in Users : Begin(p, "getdisc", "g_get", u, "", NULL)

\* active_discount = get_active_discount(session, user_id)
get_user_active_discount_get(p) ==
  /\ At(p, "getdisc", "g_get")
  /\ LET e == get_active_discount(View(p), call[p].u)
     IN call' = [call EXCEPT ![p] =
                   IF e.found
                   THEN [@ EXCEPT !.ad = e.promo, !.pct = e.pct, !.pc = "g_promo"]
                   ELSE Ret(@, "NONE")]
  /\ UNCHANGED <<db, now, wlog, ext, incs>>

\* A read of the active discount that reports the percentage of the code.
ReturnCatalogPercentage(p) ==
  /\ At(p, "getdisc", "g_promo")
  /\ LET d == View(p)
         c == get_promo_code_by_id(d, call[p].ad)
     IN call' = [call EXCEPT ![p] =
                   IF c = NULL THEN [@ EXCEPT !.pc = "g_clear"]
                   ELSE IF d.promo[c].until # NULL /\ d.promo[c].until <= now
                   THEN [@ EXCEPT !.c = c, !.pc = "g_clear"]
                   ELSE Ret([@ EXCEPT !.c = c, !.val = d.promo[c].pct,
                                      !.vcode = d.promo[c].code], "SOME")]
  /\ UNCHANGED <<db, now, wlog, ext, incs>>

\* promo = get_promo_code_by_id(...); missing or expired: clear the discount
get_user_active_discount_promo(p) ==
  /\ At(p, "getdisc", "g_promo")
  /\ LET d == View(p)
         c == get_promo_code_by_id(d, call[p].ad)
     IN call' = [call EXCEPT ![p] =
                   IF c = NULL THEN [@ EXCEPT !.pc = "g_clear"]
                   ELSE IF d.promo[c].until # NULL /\ d.promo[c].until <= now
                   THEN [@ EXCEPT !.c = c, !.pc = "g_clear"]
                   ELSE Ret([@ EXCEPT !.c = c, !.val = call[p].pct,
                                      !.vcode = d.promo[c].code], "SOME")]
  /\ UNCHANGED <<db, now, wlog, ext, incs>>

\* clear_active_discount(session, user_id); return None
get_user_active_discount_clear(p) ==
  /\ At(p, "getdisc", "g_clear")
  /\ ~ WaitWrite(p, <<"disc", NULL, call[p].u>>)
  /\ wlog' = [wlog EXCEPT ![p] = @ \o clear_active_discount(View(p), call[p].u).w]
  /\ call' = [call EXCEPT ![p] = Ret(@, "NONE")]
  /\ UNCHANGED <<db, now, ext, incs>>

\* ------------------------------ PromoCodeService.calculate_discounted_price
\* A rounding that drops the fraction of a cent.
TruncCents(n, up) == n \div 100

\* round(x, 2) of n/100 cents: to the nearest cent.  At exactly half a cent
\* the float product lies just above or just below the half, as its binary
\* representation has it, and is rounded up or down accordingly (up).
RoundCents(n, up) ==
  LET q == n \div 100
      r == n % 100
  IN IF r > 50 \/ (r = 50 /\ up) THEN q + 1 ELSE q

\* Prices are in cents; returns (final_price, discount_amount).
calculate_discounted_price(original_price, discount_percentage, up) ==
  LET discount_amount == RoundCents(original_price * discount_percentage, up)
      final_price     == original_price - discount_amount
  IN IF final_price < 0
     THEN [final |-> 0, discount |-> original_price]
     ELSE [final |-> final_price, discount |-> discount_amount]

\* ------------------------------------------- apply_discount_to_payment
\* (final_price, discount_amount, promo_code_id); discount 0 and promo NULL
\* stand for None.
apply_discount_to_payment(d, u, original_price, promo_code_service, up) ==
  LET ad == get_active_discount(d, u)
  IN IF ~ promo_code_service \/ ~ ad.found
     THEN [final |-> original_price, discount |-> 0, promo |-> NULL]
     ELSE [final    |-> calculate_discounted_price(original_price, ad.pct, up).final,
           discount |-> calculate_discounted_price(original_price, ad.pct, up).discount,
           promo    |-> ad.promo]

\* calculate_discounted_price called on its own: prices in cents (100.00 and
\* 10.00 among them, and prices whose discount falls on half a cent) and
\* percentages, the valid ones and one above 100.
CalcPrices == {0, 1, 50, 150, 250, 999, 1000, 10000}
CalcPercentages == (1..100) \cup {150}

Start_calculate_discounted_price(p) ==
  \E price \in CalcPrices, pct \in CalcPercentages :
     BeginCall(p, [Idle EXCEPT !.op = "calc", !.pc = "k_calc",
                               !.price = price, !.pct = pct])

calculate_discounted_price_call(p) ==
  /\ At(p, "calc", "k_calc")
  /\ \E up \in BOOLEAN :
       LET r == calculate_discounted_price(call[p].price, call[p].pct, up)
       IN call' = [call EXCEPT ![p] =
                     Ret([@ EXCEPT !.final = r.final, !.val = r.discount], "PRICED")]
  /\ UNCHANGED <<db, now, wlog, ext, incs>>

Prices == {0, 999}
FullPrice == CHOOSE x \in Prices : x > 0

\* A payment handler prices a purchase and stores the Payment row.
Start_payment(p, price) ==
  \E u \in Users :
     BeginCall(p, [Idle EXCEPT !.op = "payment", !.pc = "p_get", !.u = u,
                               !.price = price])

payment_price(p) ==
  /\ At(p, "payment", "p_get")
  /\ \E up \in BOOLEAN :
       LET r == apply_discount_to_payment(View(p), call[p].u, call[p].price,
                                          TRUE, up)
       IN call' = [call EXCEPT ![p].c = r.promo, ![p].val = r.discount,
                               ![p].final = r.final, ![p].pc = "p_ins"]
  /\ UNCHANGED <<db, now, wlog, ext, incs>>

\* payments.promo_code_id REFERENCES promo_codes
fk_payments_promo_code(d, c) == c # NULL /\ ~ d.promo[c].exists

\* The next value of the payments id sequence.
FreePayIds ==
  {k \in PayIds : /\ ~ db.pay[k].exists
                  /\ \A q \in Procs : <<"pay", NULL, k>> \notin WKeys(wlog[q])}

payment_insert(p) ==
  /\ At(p, "payment", "p_ins")
  /\ FreePayIds # {}
  /\ call[p].c # NULL => ~ WaitRef(p, call[p].c)
  /\ LET k == CHOOSE x \in FreePayIds : \A y \in FreePayIds : x <= y
     IN IF fk_payments_promo_code(View(p), call[p].c)
        THEN /\ call' = [call EXCEPT ![p] = Ret(@, "EXC")]
             /\ wlog' = wlog
        ELSE /\ call' = [call EXCEPT ![p] = Ret([@ EXCEPT !.k = k], "CREATED")]
             /\ wlog' = [wlog EXCEPT ![p] =
                           Append(@, [W("insPay", call[p].c, call[p].u, k, {})
                                        EXCEPT !.a = call[p].val])]
  /\ UNCHANGED <<db, now, ext, incs>>

\* ------------------------------------ PromoCodeService.consume_discount
\* The payment layer calls consume for a payment and the user who paid it.
Start_consume_discount(p) ==
  \E u \in Users, k \in PayIds :
     /\ db.pay[k].exists => u = db.pay[k].user
     /\ Begin(p, "consume", "c_pay", u, "", k)

\* A consume that does not look at payment.discount_applied.
ConsumeWithoutAppliedCheck(p) ==
  /\ At(p, "consume", "c_pay")
  /\ LET d == View(p)
         k == get_payment_by_db_id(d, call[p].k)
     IN call' = [call EXCEPT ![p] =
                   IF k = NULL THEN Ret(@, "FALSE")
                   ELSE IF d.pay[k].promo = NULL THEN Ret(@, "FALSE")
                   ELSE [@ EXCEPT !.c = d.pay[k].promo, !.pc = "c_disc"]]
  /\ UNCHANGED <<db, now, wlog, ext, incs>>

\* payment_record, discount_applied, promo_code_id
consume_discount_payment(p) ==
  /\ At(p, "consume", "c_pay")
  /\ LET d == View(p)
         k == get_payment_by_db_id(d, call[p].k)
     IN call' = [call EXCEPT ![p] =
                   IF k = NULL THEN Ret(@, "FALSE")
                   ELSE IF d.pay[k].applied = 0 THEN Ret(@, "FALSE")
                   ELSE IF d.pay[k].promo = NULL THEN Ret(@, "FALSE")
                   ELSE [@ EXCEPT !.c = d.pay[k].promo, !.pc = "c_disc"]]
  /\ UNCHANGED <<db, now, wlog, ext, incs>>

\* active_discount = get_active_discount(...); forget it if it is for
\* another promo (seen, seenpct: the row as it was read)
consume_discount_active(p) ==
  /\ At(p, "consume", "c_disc")
  /\ LET e == get_active_discount(View(p), call[p].u)
     IN call' = [call EXCEPT ![p].ad =
                   IF e.found /\ e.promo = call[p].c THEN e.promo ELSE NULL,
                             ![p].seen = e.promo, ![p].seenpct = e.pct,
                             ![p].pc = "c_act"]
  /\ UNCHANGED <<db, now, wlog, ext, incs>>

\* existing_activation = get_user_activation_for_promo(...)
consume_discount_existing(p) ==
  /\ At(p, "consume", "c_act")
  /\ LET e == get_user_activation_for_promo(View(p), call[p].c, call[p].u)
     IN call' = [call EXCEPT ![p].ex = e.found, ![p].expay = e.pay,
                             ![p].pc = IF e.found
                                       THEN IF e.pay = NULL THEN "c_setpay"
                                            ELSE "c_clear"
                                       ELSE "r_chk"]
  /\ UNCHANGED <<db, now, wlog, ext, incs>>

\* The ledger write of consume.  An activation without a payment:
\* updated_payment = set_activation_payment_id(...), whose result is only
\* logged.  A new activation: promo_incremented =
\* increment_promo_code_usage(..., allow_overflow=True), False when it fails.
consume_discount_ledger(p) ==
  /\ call[p].op = "consume"
  /\ call[p].pc \in {"c_setpay", "c_inc"}
  /\ IF call[p].pc = "c_setpay"
     THEN /\ ~ WaitWrite(p, <<"act", call[p].c, call[p].u>>)
          /\ LET r == set_activation_payment_id(View(p), call[p].c,
                                                call[p].u, call[p].k)
             IN /\ wlog' = [wlog EXCEPT ![p] = @ \o r.w]
                /\ call' = [call EXCEPT ![p].rec = r.ret, ![p].pc = "c_clear"]
     ELSE /\ ~ WaitWrite(p, <<"promo", call[p].c, NULL>>)
          /\ LET r == increment_promo_code_usage(View(p), call[p].c, TRUE,
                                                 call[p].k)
             IN /\ wlog' = [wlog EXCEPT ![p] = @ \o r.w]
                /\ call' = [call EXCEPT ![p] =
                              IF r.ret
                              THEN [@ EXCEPT !.inc = TRUE, !.pc = "c_clear"]
                              ELSE Ret(@, "FALSE")]
  /\ UNCHANGED <<db, now, ext, incs>>

\* A consume that clears whatever discount the user holds.
ClearWhateverIsActive(p) ==
  /\ At(p, "consume", "c_clear")
  /\ ~ WaitWrite(p, <<"disc", NULL, call[p].u>>)
  /\ wlog' = [wlog EXCEPT ![p] = @ \o clear_active_discount(View(p), call[p].u).w]
  /\ call' = [call EXCEPT ![p] = Ret(@, "TRUE")]
  /\ UNCHANGED <<db, now, ext, incs>>

\* clear the active discount read above if it is for this promo; flush; True
consume_discount_clear(p) ==
  /\ At(p, "consume", "c_clear")
  /\ call[p].ad # NULL => ~ WaitWrite(p, <<"disc", NULL, call[p].u>>)
  /\ wlog' = [wlog EXCEPT ![p] =
                IF call[p].ad # NULL /\ call[p].ad = call[p].c
                THEN @ \o clear_active_discount(View(p), call[p].u).w
                ELSE @]
  /\ call' = [call EXCEPT ![p] = Ret(@, "TRUE")]
  /\ UNCHANGED <<db, now, ext, incs>>

\* ------------------------------------------- set_activation_payment_id
\* set_activation_payment_id called on its own, for a stored payment.
Start_set_activation_payment_id(p, cs) ==
  \E u \in Users, c \in cs, k \in PayIds :
     /\ db.pay[k].exists
     /\ BeginCall(p, [Idle EXCEPT !.op = "setpay", !.pc = "s_upd", !.u = u,
                                  !.c = c, !.k = k])

set_activation_payment_id_update(p) ==
  /\ At(p, "setpay", "s_upd")
  /\ ~ WaitWrite(p, <<"act", call[p].c, call[p].u>>)
  /\ LET r == set_activation_payment_id(View(p), call[p].c, call[p].u, call[p].k)
     IN /\ wlog' = [wlog EXCEPT ![p] = @ \o r.w]
        /\ call' = [call EXCEPT ![p] =
                      Ret([@ EXCEPT !.rec = r.ret], IF r.ret THEN "TRUE" ELSE "FALSE")]
  /\ UNCHANGED <<db, now, ext, incs>>

\* --------------------------------------------------- delete_promo_code
Start_delete_promo_code(p, c) ==
  BeginCall(p, [Idle EXCEPT !.op = "delete", !.pc = "x_get", !.c = c])

\* promo = get_promo_code_by_id(session, promo_id)
delete_promo_code_get(p) ==
  /\ At(p, "delete", "x_get")
  /\ call' = [call EXCEPT ![p] =
                IF get_promo_code_by_id(View(p), call[p].c) = NULL
                THEN Ret(@, "NONE")
                ELSE [@ EXCEPT !.pc = "x_discs"]]
  /\ UNCHANGED <<db, now, wlog, ext, incs>>

\* 1. clear_active_discounts_by_promo_code(session, promo_id)
delete_promo_code_discounts(p) ==
  /\ At(p, "delete", "x_discs")
  /\ LET r == clear_active_discounts_by_promo_code(View(p), call[p].c)
     IN /\ \A i \in DOMAIN r.w : \A u \in r.w[i].s :
             ~ WaitWrite(p, <<"disc", NULL, u>>)
        /\ wlog' = [wlog EXCEPT ![p] = @ \o r.w]
  /\ call' = [call EXCEPT ![p].pc = "x_pays"]
  /\ UNCHANGED <<db, now, ext, incs>>

\* A delete that leaves the payments' promo_code_id as it is.
KeepPaymentsPromo(d, c) == <<>>

\* 2. update(Payment).where(promo_code_id == promo_id).values(promo_code_id=None)
NullPaymentsPromo(d, c) ==
  LET ks == {k \in PayIds : d.pay[k].exists /\ d.pay[k].promo = c}
  IN IF ks # {} THEN <<W("nullPay", c, NULL, NULL, ks)>> ELSE <<>>

delete_promo_code_payments(p) ==
  /\ At(p, "delete", "x_pays")
  /\ LET w == NullPaymentsPromo(View(p), call[p].c)
     IN /\ \A i \in DOMAIN w : \A k \in w[i].s : ~ WaitWrite(p, <<"pay", NULL, k>>)
        /\ wlog' = [wlog EXCEPT ![p] = @ \o w]
  /\ call' = [call EXCEPT ![p].pc = "x_acts"]
  /\ UNCHANGED <<db, now, ext, incs>>

\* 3. activations = get_promo_activations_by_code_id(session, promo_id)
get_promo_activations_by_code_id(d, c) == {u \in Users : d.act[<<c, u>>] # <<>>}

delete_promo_code_activations(p) ==
  /\ At(p, "delete", "x_acts")
  /\ call' = [call EXCEPT ![p].rows =
                get_promo_activations_by_code_id(View(p), call[p].c),
                          ![p].pc = "x_flush"]
  /\ UNCHANGED <<db, now, wlog, ext, incs>>

\* session.delete(activation) for each; 4. session.delete(promo); flush.
\* A row that still references the promo makes the DELETE fail.
delete_promo_code_flush(p) ==
  /\ At(p, "delete", "x_flush")
  /\ \A u \in call[p].rows : ~ WaitWrite(p, <<"act", call[p].c, u>>)
  /\ ~ WaitDel(p, call[p].c)
  /\ LET c  == call[p].c
         w  == (IF call[p].rows # {}
                THEN <<W("delActs", c, NULL, NULL, call[p].rows)>> ELSE <<>>)
               \o <<W("delPromo", c, NULL, NULL, {})>>
         d  == ApplyLog(View(p), w)
         referenced ==
            \/ \E u \in Users : d.act[<<c, u>>] # <<>>
            \/ \E k \in PayIds : d.pay[k].exists /\ d.pay[k].promo = c
     IN IF referenced
        THEN /\ wlog' = wlog
             /\ call' = [call EXCEPT ![p] = Ret(@, "EXC")]
        ELSE /\ wlog' = [wlog EXCEPT ![p] = @ \o w]
             /\ call' = [call EXCEPT ![p] = Ret(@, "DELETED")]
  /\ UNCHANGED <<db, now, ext, incs>>

\* --------------------------------------------------- update_promo_code
\* The edits an administrator makes: a new percentage, or switching a code off.
Updates == {[f |-> "setPct", v |-> 50], [f |-> "setActive", v |-> 0]}

Start_update_promo_code(p, cs, edits) ==
  \E c \in cs, i \in edits :
     BeginCall(p, [Idle EXCEPT !.op = "update", !.pc = "u_upd", !.c = c,
                               !.code = i.f, !.val = i.v])

update_promo_code(p) ==
  /\ At(p, "update", "u_upd")
  /\ ~ WaitWrite(p, <<"promo", call[p].c, NULL>>)
  /\ IF get_promo_code_by_id(View(p), call[p].c) = NULL
     THEN /\ wlog' = wlog
          /\ call' = [call EXCEPT ![p] = Ret(@, "NONE")]
     ELSE /\ wlog' = [wlog EXCEPT ![p] =
                        Append(@, W(call[p].code, call[p].c, NULL, call[p].val, {}))]
          /\ call' = [call EXCEPT ![p] = Ret(@, "UPDATED")]
  /\ UNCHANGED <<db, now, ext, incs>>

\* ------------------------------------------- decrement_promo_code_usage
\* An id that no promo code has.
MissingPromoId == CHOOSE c \in 1..(Cardinality(PromoIds) + 1) : c \notin PromoIds

Start_decrement_promo_code_usage(p, cs) ==
  \E c \in cs :
     BeginCall(p, [Idle EXCEPT !.op = "dec", !.pc = "d_upd", !.c = c])

\* The UPDATE: a row that does not satisfy the WHERE clause is skipped, one
\* that does is locked first (the call waits for a writer of the row and then
\* looks at the row again). val keeps the counter the UPDATE found.
decrement_promo_code_usage_update(p) ==
  /\ At(p, "dec", "d_upd")
  /\ LET d == View(p)
         c == call[p].c
         r == decrement_promo_code_usage(d, c)
         found == IF get_promo_code_by_id(d, c) = NULL THEN 0 ELSE d.promo[c].cur
     IN /\ r.ret => ~ WaitWrite(p, <<"promo", c, NULL>>)
        /\ wlog' = [wlog EXCEPT ![p] = @ \o r.w]
        /\ call' = [call EXCEPT ![p] =
                      Ret([@ EXCEPT !.val = found],
                          IF r.ret THEN "TRUE" ELSE "FALSE")]
  /\ UNCHANGED <<db, now, ext, incs>>

\* ------------------------------------------------ run_database_migrations
\* The caller opens a connection and runs the migrations on it.
Start_run_database_migrations(p) ==
  BeginCall(p, [Idle EXCEPT !.op = "migrate", !.pc = "m_read"])

\* applied_revisions = {row[0] for row in SELECT id FROM schema_migrations}
run_database_migrations_read(p) ==
  /\ At(p, "migrate", "m_read")
  /\ call' = [call EXCEPT ![p].rows = View(p).mig.rec, ![p].k = 1,
                          ![p].pc = "m_next"]
  /\ UNCHANGED <<db, now, wlog, ext, incs>>

\* for migration in MIGRATIONS: skip an applied one; begin_nested() otherwise
\* (val keeps the savepoint: the writes made before it)
run_database_migrations_next(p) ==
  /\ At(p, "migrate", "m_next")
  /\ call' = [call EXCEPT ![p] =
                IF call[p].k > Len(MIGRATIONS) THEN [@ EXCEPT !.pc = "m_ret", !.res = "DONE"]
                ELSE IF MIGRATIONS[call[p].k] \in call[p].rows
                THEN [@ EXCEPT !.k = @ + 1]
                ELSE [@ EXCEPT !.val = Len(wlog[p]), !.pc = "m_upgrade"]]
  /\ UNCHANGED <<db, now, wlog, ext, incs>>

\* migration.upgrade(connection): it completes, or it raises, with or
\* without some of its statements executed
run_database_migrations_upgrade(p) ==
  /\ At(p, "migrate", "m_upgrade")
  /\ \/ /\ wlog' = [wlog EXCEPT ![p] =
                       Append(@, W("migEff", NULL, NULL, call[p].k, {}))]
        /\ call' = [call EXCEPT ![p].pc = "m_insert"]
     \/ \E partial \in BOOLEAN :
          /\ wlog' = [wlog EXCEPT ![p] =
                         IF partial
                         THEN Append(@, W("migPart", NULL, NULL, call[p].k, {}))
                         ELSE @]
          /\ call' = [call EXCEPT ![p].pc = "m_except"]
  /\ UNCHANGED <<db, now, ext, incs>>

\* schema_migrations.id is the primary key
pk_schema_migrations(d, id) == id \in d.mig.rec

\* INSERT INTO schema_migrations (id) VALUES (:revision); the savepoint is
\* released at the end of the with block
run_database_migrations_insert(p) ==
  /\ At(p, "migrate", "m_insert")
  /\ IF pk_schema_migrations(View(p), MIGRATIONS[call[p].k])
     THEN /\ wlog' = wlog
          /\ call' = [call EXCEPT ![p].pc = "m_except"]
     ELSE /\ wlog' = [wlog EXCEPT ![p] =
                        Append(@, W("migRec", NULL, NULL, call[p].k, {}))]
          /\ call' = [call EXCEPT ![p].k = @ + 1, ![p].pc = "m_next"]
  /\ UNCHANGED <<db, now, ext, incs>>

\* A runner that logs the failure and goes on with the next migration.
ContinueAfterFailure(p) ==
  /\ At(p, "migrate", "m_except")
  /\ wlog' = [wlog EXCEPT ![p] = SubSeq(@, 1, call[p].val)]
  /\ call' = [call EXCEPT ![p].k = @ + 1, ![p].pc = "m_next"]
  /\ UNCHANGED <<db, now, ext, incs>>

\* The exception leaves the with block: rollback to the savepoint; except
\* Exception as exc: log, raise exc
run_database_migrations_except(p) ==
  /\ At(p, "migrate", "m_except")
  /\ wlog' = [wlog EXCEPT ![p] = SubSeq(@, 1, call[p].val)]
  /\ call' = [call EXCEPT ![p].pc = "m_ret", ![p].res = "EXC"]
  /\ UNCHANGED <<db, now, ext, incs>>

\* The caller ends the connection's transaction: it commits after a run that
\* returned; after a run that raised it rolls back, or commits what the
\* earlier migrations of the run did.
run_database_migrations_caller(p) ==
  /\ At(p, "migrate", "m_ret")
  /\ \E commit \in BOOLEAN :
       /\ call[p].res = "DONE" => commit
       /\ db' = IF commit THEN View(p) ELSE db
  /\ call' = [call EXCEPT ![p] = Idle]
  /\ wlog' = [wlog EXCEPT ![p] = <<>>]
  /\ UNCHANGED <<now, ext, incs>>

MigrationSteps(p) ==
  \/ run_database_migrations_read(p)
  \/ run_database_migrations_next(p)
  \/ run_database_migrations_upgrade(p)
  \/ run_database_migrations_insert(p)
  \/ run_database_migrations_except(p)
  \/ run_database_migrations_caller(p)

\* ------------------------------------------------------ specification
InitWith(capB) ==
  /\ db = EmptyDb(capB, MaxCap)
  /\ now = 0
  /\ call = [p \in Procs |-> Idle]
  /\ wlog = [p \in Procs |-> <<>>]
  /\ ext = [cu \in PromoIds \X Users |-> 0]
  /\ incs = [k \in PayIds |-> 0]

\* The bonus code of the catalog allows 1..MaxCap activations.
InitBonus == \E capB \in 1..MaxCap : InitWith(capB)
Init == InitWith(1)

BonusSteps(p) ==
  \/ apply_promo_code_lookup(p)
  \/ apply_promo_code_used(p)
  \/ apply_promo_code_extend(p)
  \/ apply_promo_code_increment(p)

RecordSteps(p) ==
  \/ record_promo_activation_check(p)
  \/ record_promo_activation_get(p)
  \/ record_promo_activation_insert(p)

DiscountSteps(p) ==
  \/ apply_discount_promo_code_get(p)
  \/ apply_discount_promo_code_existing(p)
  \/ apply_discount_promo_code_lookup(p)
  \/ apply_discount_promo_code_used(p)
  \/ apply_discount_promo_code_set_check(p)
  \/ apply_discount_promo_code_set_insert(p)

GetDiscountSteps(p) ==
  \/ get_user_active_discount_get(p)
  \/ get_user_active_discount_promo(p)
  \/ get_user_active_discount_clear(p)

PaymentSteps(p) ==
  \/ payment_price(p)
  \/ payment_insert(p)

ConsumeSteps(p) ==
  \/ consume_discount_payment(p)
  \/ consume_discount_active(p)
  \/ consume_discount_existing(p)
  \/ consume_discount_ledger(p)
  \/ consume_discount_clear(p)

DeleteSteps(p) ==
  \/ delete_promo_code_get(p)
  \/ delete_promo_code_discounts(p)
  \/ delete_promo_code_payments(p)
  \/ delete_promo_code_activations(p)
  \/ delete_promo_code_flush(p)

\* Concurrent bonus redemptions.
NextBonus ==
  \/ Tick
  \/ \E p \in Procs : Start_apply_promo_code(p, CodeInputs)
  \/ \E p \in Procs : BonusSteps(p)
  \/ \E p \in Procs : RecordSteps(p)
  \/ \E p \in Procs : Finish(p)

SpecBonus == InitBonus /\ [][NextBonus]_vars

\* Discount redemptions and reads of the active discount, concurrently, while
\* time passes.
NextDiscount ==
  \/ Tick
  \/ \E p \in Procs : Start_apply_discount_promo_code(p, CodeInputs)
  \/ \E p \in Procs : Start_get_user_active_discount(p)
  \/ \E p \in Procs : DiscountSteps(p)
  \/ \E p \in Procs : GetDiscountSteps(p)
  \/ \E p \in Procs : Finish(p)

SpecDiscount == Init /\ [][NextDiscount]_vars

\* Discounts redeemed and payments priced one call at a time, and the
\* payments' consume calls concurrently.
NextConsume ==
  \/ \E p \in Procs : Quiet(p) /\ Start_apply_discount_promo_code(p, CodeInputs)
  \/ \E p \in Procs, price \in Prices : Quiet(p) /\ Start_payment(p, price)
  \/ \E p \in Procs : Among(p, {"consume"}) /\ Start_consume_discount(p)
  \/ \E p \in Procs : DiscountSteps(p)
  \/ \E p \in Procs : PaymentSteps(p)
  \/ \E p \in Procs : ConsumeSteps(p)
  \/ \E p \in Procs : RecordSteps(p)
  \/ \E p \in Procs : Finish(p)

SpecConsume == Init /\ [][NextConsume]_vars

\* The code the administrator deletes.
DeleteTargets == {c \in PromoIds : Catalog(1, 1)[c].code = "DEAL"}

\* Deletions of a discount code, concurrent with discount redemptions and with consume
\* calls; payments are priced one call at a time.
NextDelete ==
  \/ \E p \in Procs : Quiet(p) /\ Start_payment(p, FullPrice)
  \/ \E p \in Procs : Among(p, {"delete"}) /\ Start_apply_discount_promo_code(p, CodeInputs)
  \/ \E p \in Procs : Among(p, {"delete"}) /\ Start_consume_discount(p)
  \/ \E p \in Procs, c \in DeleteTargets :
        Among(p, {"discount", "consume"}) /\ Start_delete_promo_code(p, c)
  \/ \E p \in Procs : DiscountSteps(p)
  \/ \E p \in Procs : PaymentSteps(p)
  \/ \E p \in Procs : ConsumeSteps(p)
  \/ \E p \in Procs : RecordSteps(p)
  \/ \E p \in Procs : DeleteSteps(p)
  \/ \E p \in Procs : Finish(p)

SpecDelete == Init /\ [][NextDelete]_vars

\* Discount redemptions and reads of the active discount, one call at a time;
\* time passes between the calls.
NextDiscountSeq ==
  \/ (\A p \in Procs : call[p].pc = "done") /\ Tick
  \/ \E p \in Procs : Quiet(p) /\ Start_apply_discount_promo_code(p, CodeInputs)
  \/ \E p \in Procs : Quiet(p) /\ Start_get_user_active_discount(p)
  \/ \E p \in Procs : DiscountSteps(p)
  \/ \E p \in Procs : GetDiscountSteps(p)
  \/ \E p \in Procs : Finish(p)

SpecDiscountSeq == Init /\ [][NextDiscountSeq]_vars

\* The usage counters: bonus redemptions concurrently (the strict increment),
\* and between them discount redemptions, payments and consume calls (the
\* overflow increment) one call at a time.
NextCounter ==
  \/ \E p \in Procs : Among(p, {"bonus"}) /\ Start_apply_promo_code(p, {"BONUS"})
  \/ \E p \in Procs : Quiet(p) /\ Start_apply_discount_promo_code(p, {" save "})
  \/ \E p \in Procs : Quiet(p) /\ Start_payment(p, FullPrice)
  \/ \E p \in Procs : Quiet(p) /\ Start_consume_discount(p)
  \/ \E p \in Procs : BonusSteps(p)
  \/ \E p \in Procs : DiscountSteps(p)
  \/ \E p \in Procs : PaymentSteps(p)
  \/ \E p \in Procs : ConsumeSteps(p)
  \/ \E p \in Procs : RecordSteps(p)
  \/ \E p \in Procs : Finish(p)

SpecCounter == Init /\ [][NextCounter]_vars

\* The code whose activations the linking calls work on.
LinkTargets == DeleteTargets

\* Linking activations to payments: activations recorded without a payment,
\* discounts redeemed and payments priced one call at a time, and consume and
\* set_activation_payment_id calls concurrently.
NextLink ==
  \/ \E p \in Procs : Quiet(p) /\ Start_record_promo_activation(p, LinkTargets)
  \/ \E p \in Procs : Quiet(p) /\ Start_apply_discount_promo_code(p, {"deal"})
  \/ \E p \in Procs : Quiet(p) /\ Start_payment(p, FullPrice)
  \/ \E p \in Procs : Among(p, {"consume", "setpay"}) /\ Start_consume_discount(p)
  \/ \E p \in Procs : Among(p, {"consume", "setpay"})
                         /\ Start_set_activation_payment_id(p, LinkTargets)
  \/ \E p \in Procs : set_activation_payment_id_update(p)
  \/ \E p \in Procs : DiscountSteps(p)
  \/ \E p \in Procs : PaymentSteps(p)
  \/ \E p \in Procs : ConsumeSteps(p)
  \/ \E p \in Procs : RecordSteps(p)
  \/ \E p \in Procs : Finish(p)

SpecLink == Init /\ [][NextLink]_vars

\* N concurrent redemptions of the bonus code, one per session, by distinct
\* users, against a code with a single slot.
Start_race(p) ==
  /\ call[p].op = "idle"
  /\ \E u \in Users \ {call[q].u : q \in Procs \ {p}} :
        Begin(p, "bonus", "b_lookup", u, "BONUS", NULL)

NextRace ==
  \/ \E p \in Procs : Start_race(p)
  \/ \E p \in Procs : BonusSteps(p)
  \/ \E p \in Procs : RecordSteps(p)
  \/ \E p \in Procs : Finish(p)

SpecRace == Init /\ [][NextRace]_vars

\* Discounts that expire and are replaced: discount redemptions, reads of the
\* active discount and payments one call at a time, time passing between the
\* calls, and the payments' consume calls concurrently.
NextExpiry ==
  \/ (\A p \in Procs : call[p].pc = "done") /\ Tick
  \/ \E p \in Procs : Quiet(p) /\ Start_apply_discount_promo_code(p, CodeInputs)
  \/ \E p \in Procs : Quiet(p) /\ Start_get_user_active_discount(p)
  \/ \E p \in Procs : Quiet(p) /\ Start_payment(p, FullPrice)
  \/ \E p \in Procs : Among(p, {"consume"}) /\ Start_consume_discount(p)
  \/ \E p \in Procs : DiscountSteps(p)
  \/ \E p \in Procs : GetDiscountSteps(p)
  \/ \E p \in Procs : PaymentSteps(p)
  \/ \E p \in Procs : ConsumeSteps(p)
  \/ \E p \in Procs : RecordSteps(p)
  \/ \E p \in Procs : Finish(p)

SpecExpiry == Init /\ [][NextExpiry]_vars

\* Payments consume has nothing to do for: discount redemptions, payments
\* (free ones among them, whose discount amount is 0) and deletions of the
\* discount code one call at a time, and consume calls concurrently.
NextGuard ==
  \/ \E p \in Procs : Quiet(p) /\ Start_apply_discount_promo_code(p, {"deal"})
  \/ \E p \in Procs, price \in Prices : Quiet(p) /\ Start_payment(p, price)
  \/ \E p \in Procs, c \in DeleteTargets : Quiet(p) /\ Start_delete_promo_code(p, c)
  \/ \E p \in Procs : Among(p, {"consume"}) /\ Start_consume_discount(p)
  \/ \E p \in Procs : DiscountSteps(p)
  \/ \E p \in Procs : PaymentSteps(p)
  \/ \E p \in Procs : DeleteSteps(p)
  \/ \E p \in Procs : ConsumeSteps(p)
  \/ \E p \in Procs : RecordSteps(p)
  \/ \E p \in Procs : Finish(p)

SpecGuard == Init /\ [][NextGuard]_vars

\* Which codes a redemption accepts: redemptions of both kinds with the
\* inputs of a bonus code and of a discount code that expires and allows one
\* activation, payments, consume calls and switching these codes off, one
\* call at a time; time passes between the calls.
EligibleInputs == {"BONUS", " save "}
EligibleTargets ==
  {c \in PromoIds : \E i \in EligibleInputs : Catalog(1, MaxCap)[c].code = Upper(Strip(i))}

NextEligible ==
  \/ (\A p \in Procs : call[p].pc = "done") /\ Tick
  \/ \E p \in Procs : Quiet(p) /\ Start_apply_promo_code(p, EligibleInputs)
  \/ \E p \in Procs : Quiet(p) /\ Start_apply_discount_promo_code(p, EligibleInputs)
  \/ \E p \in Procs : Quiet(p) /\ Start_payment(p, FullPrice)
  \/ \E p \in Procs : Quiet(p) /\ Start_consume_discount(p)
  \/ \E p \in Procs :
        /\ Quiet(p)
        /\ Start_update_promo_code(p, EligibleTargets,
                                   {i \in Updates : i.f = "setActive"})
  \/ \E p \in Procs : BonusSteps(p)
  \/ \E p \in Procs : DiscountSteps(p)
  \/ \E p \in Procs : PaymentSteps(p)
  \/ \E p \in Procs : ConsumeSteps(p)
  \/ \E p \in Procs : RecordSteps(p)
  \/ \E p \in Procs : update_promo_code(p)
  \/ \E p \in Procs : Finish(p)

SpecEligible == Init /\ [][NextEligible]_vars

\* A discount redeemed while it is being used: concurrent redemptions of one
\* discount code, and payments and consume calls that run while a redemption
\* is in progress.
NextReuse ==
  \/ \E p \in Procs : Start_apply_discount_promo_code(p, {"deal"})
  \/ \E p \in Procs : Among(p, {"discount"}) /\ Start_payment(p, FullPrice)
  \/ \E p \in Procs : Among(p, {"discount"}) /\ Start_consume_discount(p)
  \/ \E p \in Procs : DiscountSteps(p)
  \/ \E p \in Procs : PaymentSteps(p)
  \/ \E p \in Procs : ConsumeSteps(p)
  \/ \E p \in Procs : RecordSteps(p)
  \/ \E p \in Procs : Finish(p)

SpecReuse == Init /\ [][NextReuse]_vars

\* The percentage of a code edited after its redemption: discount
\* redemptions one at a time; edits of the percentage of the discount codes,
\* reads of the active discount and payments concurrently; time passes
\* between the calls.
Readers == {"update", "getdisc", "payment"}

NextSnapshot ==
  \/ (\A p \in Procs : call[p].pc = "done") /\ Tick
  \/ \E p \in Procs : Quiet(p) /\ Start_apply_discount_promo_code(p, CodeInputs)
  \/ \E p \in Procs :
        /\ Among(p, Readers)
        /\ Start_update_promo_code(p, DeleteTargets, {i \in Updates : i.f = "setPct"})
  \/ \E p \in Procs : Among(p, Readers) /\ Start_get_user_active_discount(p)
  \/ \E p \in Procs : Among(p, Readers) /\ Start_payment(p, FullPrice)
  \/ \E p \in Procs : DiscountSteps(p)
  \/ \E p \in Procs : update_promo_code(p)
  \/ \E p \in Procs : GetDiscountSteps(p)
  \/ \E p \in Procs : PaymentSteps(p)
  \/ \E p \in Procs : Finish(p)

SpecSnapshot == Init /\ [][NextSnapshot]_vars

\* The bonus code of the catalog.
BonusId == CHOOSE c \in PromoIds : Catalog(1, 1)[c].code = "BONUS"

\* Decrements against increments: bonus redemptions (the strict increment)
\* and decrements of the bonus code's counter and of a missing code's,
\* all concurrently.
NextDecrement ==
  \/ \E p \in Procs : Start_apply_promo_code(p, {"BONUS"})
  \/ \E p \in Procs : Start_decrement_promo_code_usage(p, {BonusId, MissingPromoId})
  \/ \E p \in Procs : BonusSteps(p)
  \/ \E p \in Procs : RecordSteps(p)
  \/ \E p \in Procs : decrement_promo_code_usage_update(p)
  \/ \E p \in Procs : Finish(p)

SpecDecrement == InitBonus /\ [][NextDecrement]_vars

\* Runs of the migrations, one at a time, on either connection.
NextMigrations ==
  \/ \E p \in Procs : Quiet(p) /\ Start_run_database_migrations(p)
  \/ \E p \in Procs : MigrationSteps(p)

SpecMigrations == Init /\ [][NextMigrations]_vars

\* Prices computed, one call at a time.
NextPrice ==
  \/ \E p \in Procs : Quiet(p) /\ Start_calculate_discounted_price(p)
  \/ \E p \in Procs : calculate_discounted_price_call(p)
  \/ \E p \in Procs : Finish(p)

SpecPrice == Init /\ [][NextPrice]_vars

\* ------------------------------------------------------------- claims

RaceOver == \A p \in Procs : call[p].op = "bonus" /\ call[p].pc = "done"
Winners  == {p \in Procs : call[p].res = "OK"}

Pairs == PromoIds \X Users
HasInsert(log, t) == \E i \in DOMAIN log : log[i].t = t

\* C3: no (promo, user) pair ever has more than one activation row, in the
\* committed table or in what any transaction sees; and when
\* record_promo_activation has returned a row, the call either inserted it
\* (and no committed row of the pair exists) or found the committed row and
\* inserted nothing.
C3_OneActivationPerPair ==
  /\ \A cu \in Pairs :
        /\ Len(db.act[cu]) <= 1
        /\ \A p \in Procs : Len(View(p).act[cu]) <= 1
  /\ \A p \in Procs :
        (call[p].pc \in {"b_inc", "c_inc"} /\ call[p].rec) =>
           (HasInsert(wlog[p], "insAct") <=> db.act[<<call[p].c, call[p].u>>] = <<>>)

\* C3 witness: two calls for one pair passed the existence check; one has
\* committed its row and the insert of the other was refused.
C3_Witness ==
  \E p \in Procs :
     /\ At(p, "bonus", "ret") /\ call[p].res = "EXC"
     /\ Len(db.act[<<call[p].c, call[p].u>>]) = 1

C5_AlreadyHasDiscount ==
  \A p \in Procs :
     At(p, "discount", "ret") =>
        /\ call[p].had <=> call[p].res = "ALREADY_HAS"
        /\ call[p].had =>
              /\ wlog[p] = <<>>
              /\ db.disc[call[p].u] # <<>>
              /\ call[p].val = Head(db.disc[call[p].u]).pct
              /\ call[p].vcode = db.promo[Head(db.disc[call[p].u]).promo].code

\* C5 witness: a user holding a discount tried another code.
C5_Witness ==
  \E p \in Procs :
     /\ At(p, "discount", "ret") /\ call[p].had
     /\ call[p].res = "ALREADY_HAS"
     /\ call[p].vcode # Upper(Strip(call[p].code))

\* valid_until of promo c is at or before now
Expired(c) == db.promo[c].until # NULL /\ db.promo[c].until <= now

\* C8: get_user_active_discount for a user whose ActiveDiscount references an
\* expired code returns none and deletes the row in its transaction; for a
\* user without a row it returns none and writes nothing (so do the later
\* calls, until a discount is redeemed again);
\* for a user whose row references an unexpired code it returns the row's
\* percentage and the code's string and leaves the row in place.
C8_ExpiredDiscountCleared ==
  \A p \in Procs :
     At(p, "getdisc", "ret") =>
        LET u == call[p].u
        IN IF ~ call[p].had
           THEN call[p].res = "NONE" /\ wlog[p] = <<>>
           ELSE IF Expired(Head(db.disc[u]).promo)
           THEN /\ call[p].res = "NONE"
                /\ View(p).disc[u] = <<>>
           ELSE /\ call[p].res = "SOME"
                /\ call[p].val = Head(db.disc[u]).pct
                /\ call[p].vcode = db.promo[Head(db.disc[u]).promo].code
                /\ wlog[p] = <<>>

\* C8 witness: a read of the active discount has cleared an expired one.
C8_Witness ==
  \E p \in Procs :
     /\ At(p, "getdisc", "ret") /\ call[p].had
     /\ Expired(Head(db.disc[call[p].u]).promo)
     /\ View(p).disc[call[p].u] = <<>>

\* C6 as stated: whatever the interleaving of the consume calls for a
\* payment, the usage counter is incremented at most once for it.
C6_AsStated == \A k \in PayIds : incs[k] <= 1

\* Rows of the tables d that reference promo c.
DiscRefs(d, c) == {u \in Users : \E i \in DOMAIN d.disc[u] : d.disc[u][i].promo = c}
ActRefs(d, c)  == {u \in Users : d.act[<<c, u>>] # <<>>}
PayRefs(d, c)  == {k \in PayIds : d.pay[k].exists /\ d.pay[k].promo = c}
NoRefs(d, c)   == DiscRefs(d, c) = {} /\ ActRefs(d, c) = {} /\ PayRefs(d, c) = {}

\* C7: no committed state holds a partly applied cascade (a row referencing
\* a promo code that is gone); when delete_promo_code has completed, in its
\* transaction the code is gone, nothing references it, and every payment
\* is still there with only its promo_code_id nulled; and a delete that no
\* other call overlapped does not fail.
C7_DeleteCascade ==
  /\ \A c \in PromoIds : ~ db.promo[c].exists => NoRefs(db, c)
  /\ \A p \in Procs :
        At(p, "delete", "ret") =>
           LET c == call[p].c
               d == View(p)
           IN /\ call[p].res = "DELETED" =>
                   /\ ~ d.promo[c].exists
                   /\ NoRefs(d, c)
                   /\ \A k \in PayIds :
                         db.pay[k].exists =>
                            d.pay[k] = [db.pay[k] EXCEPT
                                          !.promo = IF @ = c THEN NULL ELSE @]
              /\ call[p].res = "EXC" => call[p].had \/ ~ Quiet(p)
              /\ call[p].res = "NONE" => wlog[p] = <<>>

\* C7 witness: a delete has completed on a code that an active discount,
\* an activation and a payment reference in the committed tables.
C7_Witness ==
  \E p \in Procs :
     /\ At(p, "delete", "ret") /\ call[p].res = "DELETED"
     /\ DiscRefs(db, call[p].c) # {}
     /\ ActRefs(db, call[p].c) # {}
     /\ PayRefs(db, call[p].c) # {}

\* C9: while no consume has incremented a counter, no code's
\* current_activations exceeds its max_activations; a transaction that is
\* not a consume never raises a counter above the cap; and the strict
\* increment of a bonus redemption either added one below the cap or, the
\* committed counter being at the cap, returned the rejected signal and left
\* the counter as it was.
C9_CounterWithinCap ==
  /\ (\A k \in PayIds : incs[k] = 0) =>
        \A c \in PromoIds : db.promo[c].cur <= db.promo[c].max
  /\ \A p \in Procs, c \in PromoIds :
        View(p).promo[c].cur > db.promo[c].cur =>
           \/ View(p).promo[c].cur <= db.promo[c].max
           \/ call[p].op = "consume"
  /\ \A p \in Procs :
        (At(p, "bonus", "ret") /\ call[p].exted /\ call[p].res # "EXC") =>
           LET c == call[p].c
           IN IF call[p].inc
              THEN /\ View(p).promo[c].cur = db.promo[c].cur + 1
                   /\ View(p).promo[c].cur <= db.promo[c].max
              ELSE /\ View(p).promo[c].cur = db.promo[c].cur
                   /\ db.promo[c].cur >= db.promo[c].max
                   /\ call[p].res = "ERROR"

\* C9 witness: consume calls have taken a discount code above its cap, and
\* the strict increment of a bonus redemption has been rejected at the cap.
C9_Witness ==
  /\ \E c \in PromoIds : db.promo[c].cur > db.promo[c].max
  /\ \E p \in Procs : /\ At(p, "bonus", "ret") /\ call[p].exted
                        /\ call[p].res = "ERROR" /\ ~ call[p].inc
                        /\ call[p].rec

\* C10: a committed activation row that has a payment_id is not changed by
\* the writes of any transaction; set_activation_payment_id returns true
\* exactly when it wrote, which it does only on a row whose payment_id is
\* null, and false, writing nothing, on a linked or missing row; and a
\* consume that found the row linked writes nothing to it.
C10_PaymentLinkStable ==
  /\ \A p \in Procs, cu \in Pairs :
        (db.act[cu] # <<>> /\ Head(db.act[cu]) # NULL) =>
           View(p).act[cu] = db.act[cu]
  /\ \A p \in Procs :
        LET cu == <<call[p].c, call[p].u>>
        IN /\ At(p, "setpay", "ret") =>
                IF call[p].res = "TRUE"
                THEN /\ db.act[cu] = <<NULL>>
                     /\ View(p).act[cu] = <<call[p].k>>
                ELSE /\ wlog[p] = <<>>
                     /\ db.act[cu] = <<>> \/ Head(db.act[cu]) # NULL
           /\ (At(p, "consume", "ret") /\ call[p].ex /\ call[p].expay # NULL) =>
                ~ HasInsert(wlog[p], "setPay")

\* C10 witness: set_activation_payment_id was called for a row linked to
\* another payment, and returned false.
C10_Witness ==
  \E p \in Procs :
     LET cu == <<call[p].c, call[p].u>>
     IN /\ At(p, "setpay", "ret") /\ call[p].res = "FALSE"
        /\ db.act[cu] # <<>>
        /\ Head(db.act[cu]) \notin {NULL, call[p].k}

RECURSIVE Sum(_, _)
Sum(f, S) ==
  IF S = {} THEN 0
  ELSE LET x == CHOOSE y \in S : TRUE IN f[x] + Sum(f, S \ {x})

Counters(d) == [c \in PromoIds |-> d.promo[c].cur]

\* C11: a successful apply_discount_promo_code has, in its transaction, added
\* exactly one ActiveDiscount row (the user's, with the code and its
\* percentage) and changed no activation row, no counter and no other user's
\* discount; every activation row of a discount code carries the payment
\* whose consume recorded it, and the counters add up to the increments the
\* consume calls have committed.
C11_DiscountWritesOnlyDiscount ==
  /\ \A p \in Procs :
        (At(p, "discount", "ret") /\ call[p].res = "OK") =>
           LET d == View(p)
               u == call[p].u
           IN /\ d.act = db.act
              /\ Counters(d) = Counters(db)
              /\ db.disc[u] = <<>>
              /\ d.disc[u] = <<[promo |-> call[p].c,
                                pct |-> db.promo[call[p].c].pct]>>
              /\ \A v \in Users \ {u} : d.disc[v] = db.disc[v]
  /\ \A cu \in Pairs : \A i \in DOMAIN db.act[cu] :
        /\ db.act[cu][i] # NULL
        /\ db.pay[db.act[cu][i]].user = cu[2]
  /\ Sum(Counters(db), PromoIds) = Sum(incs, PayIds)

\* C11 witness: a discount was redeemed with a code that a consume has
\* already counted, and the counter and the ledger are as they were.
C11_Witness ==
  \E p \in Procs :
     /\ At(p, "discount", "ret") /\ call[p].res = "OK"
     /\ db.promo[call[p].c].cur > 0
     /\ \E v \in Users : db.act[<<call[p].c, v>>] # <<>>

\* C12: apply_promo_code writes nothing before the subscription extension
\* has been called and has succeeded; a call whose extension failed returns
\* the generic failure, and its transaction holds no activation row and no
\* counter change; a call that returned without extending returned a failure.
C12_ExtendBeforeWrites ==
  \A p \in Procs :
     (call[p].op = "bonus" /\ call[p].pc # "done") =>
        /\ call[p].pc \in {"b_lookup", "b_used", "b_extend"} => ~ call[p].exted
        /\ ~ call[p].exted =>
              /\ wlog[p] = <<>>
              /\ View(p).act = db.act
              /\ Counters(View(p)) = Counters(db)
        /\ call[p].exted => ext[<<call[p].c, call[p].u>>] >= 1
        /\ (call[p].pc = "ret" /\ ~ call[p].exted) =>
              call[p].res \in {"NOT_FOUND", "ALREADY_USED", "ERROR"}
        /\ (call[p].pc = "ret" /\ call[p].res = "ERROR" /\ ~ call[p].exted) =>
              /\ call[p].c # NULL
              /\ ~ call[p].rec /\ ~ call[p].inc

\* C12 witness: the extension of an eligible, unused code failed, and the
\* call has returned the failure.
C12_Witness ==
  \E p \in Procs :
     /\ At(p, "bonus", "ret") /\ call[p].res = "ERROR" /\ ~ call[p].exted
     /\ db.act[<<call[p].c, call[p].u>>] = <<>>
     /\ db.promo[call[p].c].cur < db.promo[call[p].c].max

\* C13: apply_promo_code has returned success exactly when the subscription
\* was extended, record_promo_activation returned a row and the strict
\* increment_promo_code_usage succeeded; when the subscription was extended
\* and one of the two writes failed, the call has failed (the generic
\* failure, or the storage error of the insert) and the extension stays,
\* also after the call is over.
C13_SuccessIffAllThree ==
  \A p \in Procs :
     /\ At(p, "bonus", "ret") =>
          /\ call[p].res = "OK" <=>
                (call[p].exted /\ call[p].rec /\ call[p].inc)
          /\ call[p].rec => View(p).act[<<call[p].c, call[p].u>>] # <<>>
          /\ call[p].inc <=> HasInsert(wlog[p], "inc")
          /\ (call[p].exted /\ ~ (call[p].rec /\ call[p].inc)) =>
                call[p].res \in {"ERROR", "EXC"}
     /\ (call[p].op = "bonus" /\ call[p].exted) => ext[<<BonusId, call[p].u>>] >= 1
     /\ (call[p].op = "bonus" /\ call[p].res = "OK") => call[p].exted

\* C13 witness: the subscription was extended and the activation recorded,
\* the strict increment was rejected, and the call has returned failure.
C13_Witness ==
  \E p \in Procs :
     /\ At(p, "bonus", "ret") /\ call[p].res = "ERROR"
     /\ call[p].exted /\ call[p].rec /\ ~ call[p].inc
     /\ ext[<<call[p].c, call[p].u>>] >= 1

Engine == {"bonus", "discount", "consume"}

Abs(x) == IF x < 0 THEN 0 - x ELSE x

\* C16: calculate_discounted_price, on prices in cents: the final price is
\* never negative and final price plus discount amount is the original
\* price; for a percentage in [1,100] the discount amount is
\* price*percentage/100 rounded to the nearest cent and the final price is
\* the price less the discount; (100.00, 10) gives (90.00, 10.00) and
\* (10.00, 100) gives (0.00, 10.00); and whenever the discount, however
\* rounded, exceeds the price, the result is (0, original price).
C16_DiscountedPrice ==
  \A p \in Procs :
     At(p, "calc", "ret") =>
        LET price == call[p].price
            pct   == call[p].pct
            final == call[p].final
            disc  == call[p].val
        IN /\ final >= 0
           /\ final + disc = price
           /\ pct \in 1..100 =>
                 /\ Abs(100 * disc - price * pct) <= 50
                 /\ final = price - disc
           /\ (price = 10000 /\ pct = 10) => (final = 9000 /\ disc = 1000)
           /\ (price = 1000 /\ pct = 100) => (final = 0 /\ disc = 1000)
           /\ price * pct - 100 * price > 50 => (final = 0 /\ disc = price)

\* C16 witness: a discount that fell on half a cent was rounded up, for a
\* valid percentage.
C16_Witness ==
  \E p \in Procs :
     /\ At(p, "calc", "ret")
     /\ call[p].pct \in 1..100
     /\ (call[p].price * call[p].pct) % 100 = 50
     /\ 100 * call[p].val = call[p].price * call[p].pct + 50
     /\ call[p].final + call[p].val = call[p].price

\* The ledger write of the consume call of session p has failed:
\* set_activation_payment_id returned false, or record_promo_activation or
\* increment_promo_code_usage returned None.
LedgerWriteFailed(p) ==
  /\ At(p, "consume", "ret") /\ call[p].c # NULL /\ call[p].res # "EXC"
  /\ \/ call[p].ex /\ call[p].expay = NULL /\ ~ call[p].rec
     \/ ~ call[p].ex /\ ~ (call[p].rec /\ call[p].inc)

\* C17 as stated: a consume whose ledger write failed has returned false
\* and has not cleared the user's ActiveDiscount.
C17_AsStated ==
  \A p \in Procs :
     LedgerWriteFailed(p) =>
        /\ call[p].res = "FALSE"
        /\ ~ HasInsert(wlog[p], "delDisc")

\* A discount redemption of session p that passed the initial
\* no-active-discount check with an eligible code the user had not used,
\* and then did not succeed: it lost against another redemption for the user.
LostDiscountRace(p) ==
  /\ At(p, "discount", "ret")
  /\ call[p].ad = NULL /\ call[p].c # NULL
  /\ call[p].res \notin {"OK", "ALREADY_USED"}

\* C18 as stated: the redemption that lost the race returns the
\* ALREADY_HAS_DISCOUNT outcome, and the user has exactly one ActiveDiscount
\* row, the winner's.
C18_AsStated ==
  \A p \in Procs :
     LostDiscountRace(p) =>
        /\ call[p].res = "ALREADY_HAS"
        /\ Len(db.disc[call[p].u]) = 1

\* C19: when consume has returned true for a payment carrying promo P, the
\* user has, in its transaction, no ActiveDiscount row referencing P; a user
\* with a committed activation of P holds no ActiveDiscount referencing P;
\* and apply_discount_to_payment gives a payment P's discount only while the
\* user holds an ActiveDiscount of P, so never after the consume: such a
\* payment is priced in full.
C19_ConsumedDiscountGone ==
  /\ \A p \in Procs :
        (At(p, "consume", "ret") /\ call[p].res = "TRUE") =>
           call[p].u \notin DiscRefs(View(p), call[p].c)
  /\ \A cu \in Pairs : db.act[cu] # <<>> => cu[2] \notin DiscRefs(db, cu[1])
  /\ \A p \in Procs :
        (call[p].op = "payment" /\ call[p].pc \in {"p_ins", "ret"}) =>
           IF call[p].c # NULL
           THEN /\ call[p].u \in DiscRefs(db, call[p].c)
                /\ db.act[<<call[p].c, call[p].u>>] = <<>>
           ELSE /\ call[p].val = 0
                /\ call[p].final = call[p].price

\* C19 witness: a payment of a user whose discount a consume has retired
\* was priced in full.
C19_Witness ==
  \E p \in Procs :
     /\ At(p, "payment", "ret") /\ call[p].c = NULL
     /\ call[p].price > 0 /\ call[p].final = call[p].price
     /\ \E c \in PromoIds :
           /\ db.act[<<c, call[p].u>>] # <<>>
           /\ Head(db.act[<<c, call[p].u>>]) # NULL
           /\ db.disc[call[p].u] = <<>>

\* C20: a consume that read, for the user, an ActiveDiscount of a promo
\* other than the payment's never writes to the user's ActiveDiscount (in its
\* transaction the row is what is committed, promo and percentage), and it
\* still does the ledger and counter steps: when it returns true the
\* payment's promo has an activation by the user, linked to a payment, and a
\* call that found none has recorded it with its payment and raised the
\* counter by 1.
C20_OtherDiscountUntouched ==
  \A p \in Procs :
     (call[p].op = "consume" /\ call[p].seen # NULL /\ call[p].seen # call[p].c) =>
        LET c  == call[p].c
            cu == <<call[p].c, call[p].u>>
        IN /\ call[p].ad = NULL
           /\ ~ HasInsert(wlog[p], "delDisc")
           /\ View(p).disc[call[p].u] = db.disc[call[p].u]
           /\ call[p].pc = "ret" =>
                 /\ call[p].res \in {"TRUE", "EXC"}
                 /\ call[p].res = "TRUE" =>
                       /\ View(p).act[cu] # <<>>
                       /\ Head(View(p).act[cu]) # NULL
                       /\ ~ call[p].ex =>
                             View(p).promo[c].cur = db.promo[c].cur + 1
                 /\ (call[p].res = "TRUE" /\ db.act[cu] = <<>>) =>
                       View(p).act[cu] = <<call[p].k>>

\* C20 witness: the user's first discount expired unconsumed and another
\* was redeemed; the consume of the payment priced with the first has
\* recorded the activation, incremented the counter and returned true, and
\* the second discount is still there.
C20_Witness ==
  \E p \in Procs :
     /\ At(p, "consume", "ret") /\ call[p].res = "TRUE"
     /\ call[p].seen # NULL /\ call[p].seen # call[p].c
     /\ HasInsert(wlog[p], "insAct") /\ HasInsert(wlog[p], "inc")
     /\ db.disc[call[p].u] = <<[promo |-> call[p].seen, pct |-> call[p].seenpct]>>
     /\ View(p).disc[call[p].u] = db.disc[call[p].u]

\* The payment of the consume call of session p does not exist, or its
\* discount_applied is falsy, or it has no promo_code_id.
NothingToConsume(p) ==
  LET k == call[p].k
  IN \/ ~ db.pay[k].exists
     \/ db.pay[k].applied = 0
     \/ db.pay[k].promo = NULL

\* C21: a consume for a payment that does not exist, whose discount_applied
\* is falsy or whose promo_code_id is missing returns false at its first
\* step, having written no activation, counter or ActiveDiscount row; a
\* consume that goes further has a payment with a discount and a promo.
C21_NothingToConsume ==
  \A p \in Procs :
     (call[p].op = "consume" /\ call[p].pc # "c_pay") =>
        IF NothingToConsume(p)
        THEN /\ call[p].pc = "ret"
             /\ call[p].res = "FALSE"
             /\ call[p].c = NULL
             /\ wlog[p] = <<>>
             /\ View(p) = db
        ELSE call[p].c = db.pay[call[p].k].promo

\* C21 witness: consume has returned false for a payment that carries a
\* discount and whose promo_code_id was nulled by the deletion of its code.
C21_Witness ==
  \E p \in Procs :
     /\ At(p, "consume", "ret") /\ call[p].res = "FALSE"
     /\ db.pay[call[p].k].exists
     /\ db.pay[call[p].k].applied # 0
     /\ db.pay[call[p].k].promo = NULL

\* The type of code the redemption r looks for, and whether storage holds an
\* eligible code of that type for its input.
PathType(r) == IF r.op = "bonus" THEN "bonus_days" ELSE "discount"
EligibleNow(r) ==
  \E c \in PromoIds :
     /\ db.promo[c].exists
     /\ db.promo[c].code = Upper(Strip(r.code))
     /\ db.promo[c].ptype = PathType(r)
     /\ db.promo[c].active
     /\ db.promo[c].cur < db.promo[c].max
     /\ (db.promo[c].until = NULL \/ db.promo[c].until > now)

\* C22: a redemption succeeds only for a code that is active, below its cap,
\* not past its valid_until and of the type of the invoked path; for any other
\* code it extends nothing and writes nothing, and returns CODE_NOT_FOUND, or,
\* on the discount path when the user holds an active discount,
\* ALREADY_HAS_DISCOUNT, which is checked before the lookup.
C22_OnlyEligibleCodes ==
  \A p \in Procs :
     (call[p].op \in {"bonus", "discount"} /\ call[p].pc = "ret") =>
        /\ call[p].res = "OK" => EligibleNow(call[p])
        /\ ~ EligibleNow(call[p]) =>
              /\ wlog[p] = <<>>
              /\ ~ call[p].exted
              /\ IF call[p].op = "discount" /\ call[p].had
                 THEN call[p].res = "ALREADY_HAS"
                 ELSE call[p].res = "NOT_FOUND"

\* C22 witness: a redemption of a code that was switched off has returned
\* CODE_NOT_FOUND.
C22_Witness ==
  \E p \in Procs, c \in PromoIds :
     /\ call[p].op \in {"bonus", "discount"} /\ call[p].pc = "ret"
     /\ call[p].res = "NOT_FOUND"
     /\ db.promo[c].code = Upper(Strip(call[p].code))
     /\ db.promo[c].ptype = PathType(call[p])
     /\ ~ db.promo[c].active

\* C22 as stated: every redemption of a code that is not eligible returns
\* CODE_NOT_FOUND.
C22_AsStated ==
  \A p \in Procs :
     (call[p].op \in {"bonus", "discount"} /\ call[p].pc = "ret"
        /\ ~ EligibleNow(call[p])) => call[p].res = "NOT_FOUND"

\* C23 as stated: in no reachable state does a user hold an ActiveDiscount
\* for a discount code together with an activation of that code that is
\* linked to a payment.
C23_AsStated ==
  \A u \in Users, c \in PromoIds :
     ~ /\ db.disc[u] # <<>>
       /\ Head(db.disc[u]).promo = c
       /\ db.act[<<c, u>>] # <<>>
       /\ Head(db.act[<<c, u>>]) # NULL

\* C24: the percentage of an ActiveDiscount is a snapshot. An update of a
\* code writes no ActiveDiscount row; a read of the active discount reports
\* the percentage stored in the user's row, and a payment is priced with it,
\* whatever the code's discount_percentage has become (a row that a
\* concurrent read cleared as expired is no longer there to compare with).
C24_PercentageSnapshot ==
  \A p \in Procs :
     /\ At(p, "update", "ret") => View(p).disc = db.disc
     /\ (At(p, "getdisc", "ret") /\ call[p].res = "SOME") =>
           /\ db.disc[call[p].u] # <<>>
           /\ call[p].val = Head(db.disc[call[p].u]).pct
     /\ (call[p].op = "payment" /\ call[p].pc \in {"p_ins", "ret"}
           /\ call[p].c # NULL /\ db.disc[call[p].u] # <<>>) =>
           /\ Head(db.disc[call[p].u]).promo = call[p].c
           /\ \E up \in BOOLEAN :
                LET r == calculate_discounted_price(
                           call[p].price, Head(db.disc[call[p].u]).pct, up)
                IN call[p].val = r.discount /\ call[p].final = r.final

\* C24 witness: the code's discount_percentage was changed after the user
\* redeemed it, and a read and a payment have used the row's percentage.
C24_Witness ==
  \E p, q \in Procs :
     /\ At(p, "getdisc", "ret") /\ call[p].res = "SOME"
     /\ call[p].val # db.promo[call[p].c].pct
     /\ At(q, "payment", "ret") /\ call[q].c # NULL
     /\ call[q].val # calculate_discounted_price(
                         call[q].price, db.promo[call[q].c].pct, TRUE).discount

\* C25: current_activations is never negative, in committed storage and in
\* every session's view. A decrement that finds the counter at 0, or no such
\* code, returns false and writes nothing; any other decrement returns true
\* and leaves the counter exactly 1 below the committed value it found.
C25_CounterNotNegative ==
  /\ \A c \in PromoIds : db.promo[c].cur >= 0
  /\ \A p \in Procs, c \in PromoIds : View(p).promo[c].cur >= 0
  /\ \A p \in Procs :
        At(p, "dec", "ret") =>
           IF call[p].res = "TRUE"
           THEN /\ call[p].val > 0
                /\ db.promo[call[p].c].cur = call[p].val
                /\ View(p).promo[call[p].c].cur = call[p].val - 1
                /\ \A c \in PromoIds \ {call[p].c} :
                      View(p).promo[c] = db.promo[c]
           ELSE /\ call[p].res = "FALSE"
                /\ call[p].val = 0
                /\ wlog[p] = <<>>

\* C25 witness: a decrement has returned false on a counter at 0 that an
\* earlier decrement brought down from 1, and another session is
\* incrementing the counter at the same time.
C25_Witness ==
  \E p, q \in Procs :
     /\ At(p, "dec", "ret") /\ call[p].res = "FALSE"
     /\ call[p].c = BonusId
     /\ db.act[<<BonusId, 1>>] # <<>> \/ db.act[<<BonusId, 2>>] # <<>>
     /\ call[q].op = "bonus" /\ HasInsert(wlog[q], "inc")

\* The ids of the first n registered migrations.
Prefix(n) == {MIGRATIONS[i] : i \in 1..n}

\* In storage d the recorded ids are a prefix of MIGRATIONS, the upgrade of
\* each recorded migration is in effect exactly once, that of any other not
\* at all, and nothing is left of an upgrade that raised.
Migrated(d) ==
  /\ \E n \in 0..Len(MIGRATIONS) : d.mig.rec = Prefix(n)
  /\ \A i \in DOMAIN MIGRATIONS :
        /\ d.mig.eff[i] = IF MIGRATIONS[i] \in d.mig.rec THEN 1 ELSE 0
        /\ d.mig.part[i] = 0

\* C26: starting from an empty schema_migrations, after any number of runs
\* the recorded ids are a prefix of MIGRATIONS with each recorded upgrade in
\* effect exactly once; a run ends having recorded every migration, or, when
\* the upgrade of migration k raised, with the exception re-raised, the
\* effects of that upgrade rolled back to the savepoint, migration k and all
\* later ones neither applied nor recorded; a run with nothing pending
\* writes nothing.
C26_MigrationsPrefix ==
  /\ Migrated(db)
  /\ \A p \in Procs :
        At(p, "migrate", "m_ret") =>
           /\ Migrated(View(p))
           /\ call[p].res = "DONE" => View(p).mig.rec = Prefix(Len(MIGRATIONS))
           /\ call[p].res = "EXC" =>
                 /\ call[p].k \in DOMAIN MIGRATIONS
                 /\ View(p).mig.rec = Prefix(call[p].k - 1)
           /\ call[p].rows = Prefix(Len(MIGRATIONS)) =>
                 call[p].res = "DONE" /\ wlog[p] = <<>>

\* C26 witness: a run that found the first migrations recorded by an earlier
\* run that raised has applied a pending migration, and the upgrade of a
\* later one has raised.
C26_Witness ==
  \E p \in Procs :
     /\ At(p, "migrate", "m_ret") /\ call[p].res = "EXC"
     /\ call[p].rows # {} /\ call[p].rows # View(p).mig.rec
     /\ call[p].rows = db.mig.rec

\* C27 as stated: one redeemed discount is linked to one payment. Whenever
\* consume returns true for a payment priced with the discount, the user's
\* activation of the code is linked to that payment (so that no second
\* payment priced with the same discount has consume return true).
C27_AsStated ==
  \A p \in Procs :
     (At(p, "consume", "ret") /\ call[p].res = "TRUE") =>
        /\ View(p).act[<<call[p].c, call[p].u>>] # <<>>
        /\ Head(View(p).act[<<call[p].c, call[p].u>>]) = call[p].k

\* C28 as stated: for every user and bonus code, the user's subscription is
\* extended at most once on behalf of the code.
C28_AsStated ==
  \A u \in Users : ext[<<BonusId, u>>] <= 1

\* C29 as stated: the number of subscription extensions granted on behalf of
\* a bonus code never exceeds its max_activations.
C29_AsStated ==
  Sum([u \in Users |-> ext[<<BonusId, u>>]], Users) <= db.promo[BonusId].max

\* C30 as stated: apply_discount_to_payment writes nothing, and it returns a
\* reduced price with a promo_code_id only for an ActiveDiscount whose promo
\* code exists and whose valid_until has not passed.
C30_AsStated ==
  \A p \in Procs :
     At(p, "payment", "p_ins") =>
        /\ wlog[p] = <<>>
        /\ call[p].c # NULL =>
              /\ db.promo[call[p].c].exists
              /\ ~ Expired(call[p].c)

=============================================================================
